---- MODULE Spec2Model ----
(***************************************************************************)
(* Model of backend/app.py of ERHelper: the spreadsheet ingestion loader, *)
(* the pickled Dataset cache, the pandas query functions and the advisory  *)
(* (AI) cache with its reasoning-service collaborator.                     *)
(*                                                                         *)
(* Text is a sequence of one-character strings, so that trimming, case     *)
(* folding, regular-expression search and key formatting are computed on   *)
(* characters.  A spreadsheet cell is NaN, a number or a text.             *)
(***************************************************************************)
EXTENDS Integers, Sequences, FiniteSets, TLC

VARIABLES
    elden_data,   \* app.py:26  level -> DataFrame, the process-wide Dataset
    ai_cache,     \* app.py:27  cache key -> advisory text
    dataFile,     \* DATA_FILE: a workbook, or Missing
    cacheFile,    \* CACHE_FILE: Absent, Corrupt or a pickle of a Dataset
    aiCacheFile,  \* AI_CACHE_FILE: Absent, Corrupt or a pickle of an ai_cache
    pc,           \* "boot" before __main__ has run, "serving" afterwards
    response,     \* what the last handler returned (or raised), and how
    reqno,        \* parity of the number of handlers run so far
    saved         \* history: the Dataset of the last pickle.dump to CACHE_FILE
                  \* that completed, None before any

vars == <<elden_data, ai_cache, dataFile, cacheFile, aiCacheFile, pc, response, reqno,
          saved>>

-----------------------------------------------------------------------------
(* Bounds of the model *)

\* the largest number of advisory-cache entries a run builds up
MaxEntries == 2

\* the longest query or region text of a request
MaxQueryLen == 2

-----------------------------------------------------------------------------
(* Python values *)

NaN == [nan |-> TRUE]
Num(n) == [num |-> n]
Str(s) == [str |-> s]
IsNaN(c) == DOMAIN c = {"nan"}
IsNum(c) == DOMAIN c = {"num"}
IsStr(c) == DOMAIN c = {"str"}
\* the float inf
Inf == [inf |-> TRUE]
IsInf(c) == DOMAIN c = {"inf"}

\* an exception leaving a function, and a value returned by it
None == [none |-> TRUE]
\* a Python list
List(s) == [list |-> s]
Raised(e) == [raised |-> e]
IsRaised(r) == DOMAIN r = {"raised"}

EmptyDict == [k \in {} |-> NaN]
DictSet(d, k, v) == [x \in DOMAIN d \cup {k} |-> IF x = k THEN v ELSE d[x]]

Digits == <<"0", "1", "2", "3", "4", "5", "6", "7", "8", "9">>
IsDigit(c) == \E i \in 1..Len(Digits) : Digits[i] = c
DigitVal(c) == (CHOOSE i \in 1..Len(Digits) : Digits[i] = c) - 1

Rev(s) == [i \in 1..Len(s) |-> s[Len(s) + 1 - i]]

RECURSIVE JoinFrom(_, _)
JoinFrom(s, i) == IF i > Len(s) THEN "" ELSE s[i] \o JoinFrom(s, i + 1)

\* the Python string made of the characters s, as one value
Join(s) == JoinFrom(s, 1)

RECURSIVE IntToChars(_)
IntToChars(n) ==
    IF n < 0 THEN <<"-">> \o IntToChars(0 - n)
    ELSE IF n < 10 THEN <<Digits[n + 1]>>
    ELSE IntToChars(n \div 10) \o <<Digits[(n % 10) + 1]>>

RECURSIVE DigitsToIntUpTo(_, _)
DigitsToIntUpTo(s, n) ==
    IF n = 0 THEN 0 ELSE 10 * DigitsToIntUpTo(s, n - 1) + DigitVal(s[n])

DigitsToInt(s) == DigitsToIntUpTo(s, Len(s))

AllDigits(s) == s # <<>> /\ \A i \in 1..Len(s) : IsDigit(s[i])

\* text that float() / pd.to_numeric accept, over the integers of the model
IsNumericText(s) ==
    \/ AllDigits(s)
    \/ Len(s) > 1 /\ s[1] = "-" /\ AllDigits(Tail(s))

TextToInt(s) == IF s[1] = "-" THEN 0 - DigitsToInt(Tail(s)) ELSE DigitsToInt(s)

\* str(value)
py_str(c) ==
    IF IsStr(c) THEN c.str
    ELSE IF IsNum(c) THEN IntToChars(c.num)
    ELSE IF IsInf(c) THEN <<"i", "n", "f">>
    ELSE <<"n", "a", "n">>

\* str.strip(): what lies between the first and the last non-blank character
strip(s) ==
    LET solid == {i \in 1..Len(s) : s[i] # " "}
    IN  IF solid = {} THEN <<>>
        ELSE SubSeq(s, CHOOSE i \in solid : \A j \in solid : i <= j,
                       CHOOSE i \in solid : \A j \in solid : i >= j)

UpperCase == <<"A", "B", "C", "E", "I", "L", "M", "N", "U">>
LowerCase == <<"a", "b", "c", "e", "i", "l", "m", "n", "u">>
LowerChar(c) ==
    IF \E i \in 1..Len(UpperCase) : UpperCase[i] = c
    THEN LowerCase[CHOOSE i \in 1..Len(UpperCase) : UpperCase[i] = c]
    ELSE c

\* str.lower()
lower(s) == [i \in 1..Len(s) |-> LowerChar(s[i])]

\* pd.isna(value): NaN, and None for a column that a row does not have
isna(c) == IsNaN(c)

\* pd.to_numeric(value, errors='coerce'), and float(value) where a failure
\* is read as NaN: the text 'inf', in any case, is the float inf
to_numeric(c) ==
    IF IsNum(c) \/ IsInf(c) THEN c
    ELSE IF IsStr(c) /\ IsNumericText(c.str) THEN Num(TextToInt(c.str))
    ELSE IF IsStr(c) /\ lower(c.str) = <<"i", "n", "f">> THEN Inf
    ELSE NaN

\* Series.fillna(0) on one value
fillna0(c) == IF IsNaN(c) THEN Num(0) ELSE c

-----------------------------------------------------------------------------
(* DataFrames: [cols: sequence of column names, rows: sequence of rows],   *)
(* a row being a function from the column names to cells.                  *)

HasCol(df, col) == \E i \in 1..Len(df.cols) : df.cols[i] = col

\* row.get(col) and row.get(col, default)
RowGet(row, col, default) == IF col \in DOMAIN row THEN row[col] ELSE default

\* df[mask]: the rows that pass Test, in order
Filter(df, Test(_)) == [cols |-> df.cols, rows |-> SelectSeq(df.rows, Test)]

\* df[col] = values, values being a function of the row and its position
SetCol(df, col, F(_, _)) ==
    [cols |-> IF HasCol(df, col) THEN df.cols ELSE Append(df.cols, col),
     rows |-> [i \in 1..Len(df.rows) |->
                 [c \in DOMAIN df.rows[i] \cup {col} |->
                     IF c = col THEN F(df.rows[i], i) ELSE df.rows[i][c]]]]

-----------------------------------------------------------------------------
(* Files *)

Missing == [missing |-> TRUE]
Absent == [absent |-> TRUE]
Corrupt == [corrupt |-> TRUE]
Exists(f) == f # Absent /\ f # Missing

\* pickle.dump(obj, f) writes a blob; pickle.load(f) gives the object back
\* or raises on anything that is not a complete blob
pickle_dump(obj) == [pkl |-> obj]
pickle_load(f) == IF DOMAIN f = {"pkl"} THEN f.pkl ELSE Raised("UnpicklingError")

\* with open(path, 'wb') as f: pickle.dump(obj, f), whose outcome is one of
\*   "ok"       the file holds the blob,
\*   "denied"   open() raises and the file is as it was,
\*   "partial"  open() has truncated the file and dump() raises part-way
WriteOutcomes == {"ok", "denied", "partial"}
write_pickle(old, obj, outcome) ==
    CASE outcome = "ok" -> pickle_dump(obj)
      [] outcome = "denied" -> old
      [] outcome = "partial" -> Corrupt

-----------------------------------------------------------------------------
(* Ingestion: load_elden_ring_data *)

ng_levels == <<"NG", "NG+", "NG+2", "NG+3", "NG+4", "NG+5", "NG+6", "NG+7">>
NgSet == {ng_levels[i] : i \in 1..Len(ng_levels)}

\* the header-row candidates, in the order they are tried
header_rows == <<1, 0, 2>>

numeric_cols == <<"Phys", "Strike", "Slash", "Pierce", "Magic", "Fire", "Ltng", "Holy",
                  "Phys.1", "Strike.1", "Slash.1", "Pierce.1", "Magic.1", "Fire.1",
                  "Ltng.1", "Holy.1",
                  "Base", "Effective", "Regen Delay",
                  "Bleed.1", "Frost.1", "HP Burn Effect">>

\* the name pandas gives column k (from 1) of a header row: the cell's text,
\* "Unnamed: <k-1>" for an empty cell, ".<n>" appended to the n-th repeat
header_name(hdr, k) ==
    LET base(j) == IF IsNaN(hdr[j])
                   THEN <<"U", "n", "n", "a", "m", "e", "d", ":", " ">> \o IntToChars(j - 1)
                   ELSE py_str(hdr[j])
        repeats == Cardinality({j \in 1..(k - 1) : base(j) = base(k)})
    IN  IF repeats = 0 THEN base(k) ELSE base(k) \o <<".">> \o IntToChars(repeats)

\* pd.read_excel(DATA_FILE, sheet_name=ng, header=header_row, dtype=object)
\* followed by tmp.columns = [str(c).strip() for c in tmp.columns]
read_excel(wb, ng, header_row) ==
    IF ng \notin DOMAIN wb THEN Raised("ValueError")
    ELSE IF header_row + 1 > Len(wb[ng]) THEN Raised("ValueError")
    ELSE LET sheet == wb[ng]
             hdr == sheet[header_row + 1]
             names == [k \in 1..Len(hdr) |-> Join(strip(header_name(hdr, k)))]
             pos(c) == CHOOSE k \in 1..Len(hdr) :
                          names[k] = c /\ \A j \in 1..(k - 1) : names[j] # c
             data == SubSeq(sheet, header_row + 2, Len(sheet))
         IN  [cols |-> names,
              rows |-> [i \in 1..Len(data) |->
                          [c \in {names[k] : k \in 1..Len(hdr)} |-> data[i][pos(c)]]]]

\* an inner loop that gives up at the first candidate that cannot be read
\* or has no Name column
find_header_first_only(wb, ng, i) ==
    LET tmp == read_excel(wb, ng, header_rows[i])
    IN  IF IsRaised(tmp) THEN None
        ELSE IF HasCol(tmp, "Name") THEN tmp
        ELSE None

RECURSIVE find_header(_, _, _)
\* the inner loop: the frame of the first candidate (from position i of
\* header_rows) that reads and has a Name column, or None
find_header(wb, ng, i) ==
    IF i > Len(header_rows) THEN None
    ELSE LET tmp == read_excel(wb, ng, header_rows[i])
         IN  IF IsRaised(tmp) THEN find_header(wb, ng, i + 1)
             ELSE IF HasCol(tmp, "Name") THEN tmp
             ELSE find_header(wb, ng, i + 1)

\* the HP of a row: dlcClear when present and not '-', else Health;
\* NaN filled with 0
derive_hp(row) ==
    LET dlc == RowGet(row, "dlcClear", NaN)
    IN  fillna0(IF ~isna(dlc) /\ dlc # Str(<<"-">>)
                THEN to_numeric(dlc)
                ELSE to_numeric(RowGet(row, "Health", NaN)))

\* for col in numeric_cols: if col in df.columns:
\*     df[col] = pd.to_numeric(df[col], errors='coerce').fillna(0)
coerce_numeric(df) ==
    LET numeric == {numeric_cols[i] : i \in 1..Len(numeric_cols)}
    IN  [cols |-> df.cols,
         rows |-> [i \in 1..Len(df.rows) |->
                     [c \in DOMAIN df.rows[i] |->
                         IF c \in numeric THEN fillna0(to_numeric(df.rows[i][c]))
                         ELSE df.rows[i][c]]]]

\* the body of the per-level try block once a header is found
normalize_level(tmp) ==
    LET named == Filter(tmp, LAMBDA row : ~isna(row["Name"]))
        kept == Filter(named, LAMBDA row : row["Name"] # Str(<<"?", "?", "?">>))
        hp(row, n) == derive_hp(row)
        withHp == SetCol(kept, "HP", hp)
        coerced == coerce_numeric(withHp)
        id(row, n) == Num(n)
    IN  IF HasCol(coerced, "ID") THEN coerced ELSE SetCol(coerced, "ID", id)

\* the loop over ng_levels: the frame stored under each level for which a
\* header is found; the other levels are skipped
ingest_levels(wb) ==
    [ng \in {l \in NgSet : find_header(wb, l, 1) # None} |->
        normalize_level(find_header(wb, ng, 1))]

\* elden_data[ng] = df for every level the loop stores: the Dataset is
\* updated in place, so the entries it already has stay unless replaced
store_levels(data, frames) ==
    [ng \in DOMAIN data \cup DOMAIN frames |->
        IF ng \in DOMAIN frames THEN frames[ng] ELSE data[ng]]

(* The workbooks the tabular source is drawn from *)

hName == <<"N", "a", "m", "e">>
hLocation == <<"L", "o", "c", "a", "t", "i", "o", "n">>
hHealth == <<"H", "e", "a", "l", "t", "h">>
hDlcClear == <<"d", "l", "c", "C", "l", "e", "a", "r">>
hPhys == <<"P", "h", "y", "s">>
hPoison == <<"P", "o", "i", "s", "o", "n">>
hScarletRot == <<"S", "c", "a", "r", "l", "e", "t", " ", "R", "o", "t">>
hBleed == <<"B", "l", "e", "e", "d">>
hFrost == <<"F", "r", "o", "s", "t">>
hSleep == <<"S", "l", "e", "e", "p">>
hMadness == <<"M", "a", "d", "n", "e", "s", "s">>
hDeathblight == <<"D", "e", "a", "t", "h", "b", "l", "i", "g", "h", "t">>
hEffective == <<"E", "f", "f", "e", "c", "t", "i", "v", "e">>

\* the character U+221E, the infinity sign
InfChar == "U+221E"

tImmune == Str(<<"I", "m", "m", "u", "n", "e">>)
tDash == Str(<<"-">>)
tX == Str(<<"x">>)
tPlaceholder == Str(<<"?", "?", "?">>)

\* enemy names and locations
n_a_b == <<"a", "_", "b">>
n_a == <<"a">>
n_Ab == <<"A", "b">>
l_L == <<"L">>
l_b_L == <<"b", "_", "L">>
l_C == <<"C">>

\* the header of a complete sheet: Phys is the defence column and its repeat
\* (named Phys.1 by pandas) the damage-negation column
FullHeader(name) ==
    <<Str(name), Str(hLocation), Str(hHealth), Str(hDlcClear), Str(hPhys), Str(hPhys),
      Str(hPoison), Str(hScarletRot), Str(hBleed), Str(hFrost), Str(hSleep),
      Str(hMadness), Str(hDeathblight), Str(hEffective)>>

FullRow(name, loc, health, dlc, neg, bleed, eff) ==
    <<name, loc, health, dlc, Num(1), neg,
      Num(100), Num(100), bleed, Num(100), Num(100), Num(100), Num(100), eff>>

TitleRow == [k \in 1..Len(FullHeader(hName)) |-> IF k = 1 THEN Str(<<"t">>) ELSE NaN]

\* title in row 0, header in row 1
SheetNG ==
    <<TitleRow,
      FullHeader(hName),
      FullRow(Str(n_a_b), Str(l_L), Num(10), NaN, Num(5), tImmune, Num(45)),
      FullRow(Str(n_a), Str(l_b_L), Num(20), tDash, tX, Num(200), Str(<<InfChar>>)),
      FullRow(NaN, Str(l_L), Num(1), NaN, Num(1), Num(1), Num(1)),
      FullRow(Str(n_a), Str(l_L), Num(30), Str(<<"3", "5">>), Num(7), Num(401), NaN),
      FullRow(tPlaceholder, Str(l_L), Num(1), NaN, Num(1), Num(1), Num(1)),
      FullRow(Str(n_Ab), Str(l_C), Num(40), tX, Num(3), NaN, Str(<<"i", "n", "f">>))>>

\* header in row 0, written with blanks around Name; no row 2
SheetNGplus ==
    <<FullHeader(<<" ">> \o hName \o <<" ">>),
      FullRow(Str(n_a_b), Str(l_L), Num(15), NaN, Num(5), tImmune, Num(45)),
      FullRow(Str(n_a), Str(l_b_L), Num(25), tDash, Num(6), Num(200), Num(50)),
      FullRow(Str(n_a), Str(l_L), tX, tDash, Num(7), Num(400), Str(<<"4", "5">>))>>

\* two title rows, header in row 2, Name and Health only
SheetNoLocation ==
    <<<<Str(<<"t">>), NaN>>,
      <<NaN, NaN>>,
      <<Str(hName), Str(hHealth)>>,
      <<Str(n_a), Num(5)>>,
      <<Str(n_Ab), Str(<<"1", "2">>)>>>>

\* no row among 0, 1, 2 has a Name cell
SheetNoName ==
    <<<<Str(<<"t">>), NaN>>,
      <<Str(hLocation), Str(hHealth)>>,
      <<Str(l_L), Num(5)>>,
      <<Str(hName), Num(6)>>>>

\* header in row 0: Name, Location, Health and, of the resistances, Bleed
SheetPartial ==
    <<<<Str(hName), Str(hLocation), Str(hHealth), Str(hBleed)>>,
      <<Str(n_a), Str(l_L), Num(50), Num(120)>>,
      <<Str(n_Ab), Str(l_L), Num(60), tImmune>>>>

\* a header and nothing but rows the loader drops
SheetNoRows ==
    <<<<Str(hName), Str(hLocation)>>,
      <<tPlaceholder, Str(l_L)>>,
      <<NaN, Str(l_C)>>>>

\* Name in row 0 and in row 1
SheetTwoHeaders ==
    <<<<Str(hName), Str(hLocation)>>,
      <<Str(hName), Str(hHealth)>>,
      <<Str(n_a), Num(5)>>>>

\* a header in row 0 and no other row: rows 1 and 2 cannot be read as headers
SheetHeaderOnly == <<<<Str(hName), Str(hLocation)>>>>

Workbooks ==
    {("NG" :> SheetNG) @@ ("NG+" :> SheetNGplus),
     ("NG" :> SheetNGplus) @@ ("NG+2" :> SheetNoLocation),
     ("NG" :> SheetNoName) @@ ("NG+" :> SheetPartial) @@ ("NG+4" :> SheetTwoHeaders),
     ("NG+2" :> SheetNoRows) @@ ("NG+5" :> SheetHeaderOnly),
     ("NG+7" :> SheetNoName)}
\* the frames the loop stores for each workbook of the model
Ingested == [wb \in Workbooks |-> ingest_levels(wb)]

\* load_elden_ring_data without the return at line 49: a readable artifact
\* is loaded and the run goes on to the source
load_elden_ring_data_no_return(force_reload, data, dfile, cfile, outcome) ==
    LET d == IF ~force_reload /\ Exists(cfile) /\ ~IsRaised(pickle_load(cfile))
             THEN pickle_load(cfile) ELSE data
    IN  IF ~Exists(dfile)
        THEN [elden_data |-> d, cacheFile |-> cfile, path |-> "nosource", done |-> {}]
        ELSE [elden_data |-> store_levels(d, Ingested[dfile]),
              cacheFile |-> IF store_levels(d, Ingested[dfile]) # EmptyDict
                            THEN write_pickle(cfile, store_levels(d, Ingested[dfile]), outcome)
                            ELSE cfile,
              path |-> "ingest", done |-> DOMAIN Ingested[dfile]]

\* load_elden_ring_data whose except clause at line 50 returns instead of
\* falling through to the ingestion
load_elden_ring_data_no_fallback(force_reload, data, dfile, cfile, outcome) ==
    IF ~force_reload /\ Exists(cfile)
    THEN [elden_data |-> IF IsRaised(pickle_load(cfile)) THEN data ELSE pickle_load(cfile),
          cacheFile |-> cfile, path |-> "cache", done |-> {}]
    ELSE IF ~Exists(dfile)
    THEN [elden_data |-> data, cacheFile |-> cfile, path |-> "nosource", done |-> {}]
    ELSE [elden_data |-> store_levels(data, Ingested[dfile]),
          cacheFile |-> IF store_levels(data, Ingested[dfile]) # EmptyDict
                        THEN write_pickle(cfile, store_levels(data, Ingested[dfile]), outcome)
                        ELSE cfile,
          path |-> "ingest", done |-> DOMAIN Ingested[dfile]]

\* load_elden_ring_data(force_reload) run on the Dataset data with the files
\* dfile and cfile: the new Dataset, the new cache artifact, the path taken
\* ("cache", "nosource" or "ingest") and the levels stored by this run
load_elden_ring_data(force_reload, data, dfile, cfile, outcome) ==
    IF ~force_reload /\ Exists(cfile) /\ ~IsRaised(pickle_load(cfile))
    THEN [elden_data |-> pickle_load(cfile), cacheFile |-> cfile,
          path |-> "cache", done |-> {}]
    ELSE IF ~Exists(dfile)
    THEN [elden_data |-> data, cacheFile |-> cfile, path |-> "nosource", done |-> {}]
    ELSE [elden_data |-> store_levels(data, Ingested[dfile]),
          cacheFile |-> IF store_levels(data, Ingested[dfile]) # EmptyDict
                        THEN write_pickle(cfile, store_levels(data, Ingested[dfile]), outcome)
                        ELSE cfile,
          path |-> "ingest", done |-> DOMAIN Ingested[dfile]]

\* load_ai_cache()
load_ai_cache(f) ==
    IF Exists(f) /\ ~IsRaised(pickle_load(f)) THEN pickle_load(f) ELSE EmptyDict

\* save_ai_cache that writes nothing
save_ai_cache_skipped(f, cache, outcome) == f

\* save_ai_cache(cache): the new artifact; a failed write is only logged
save_ai_cache(f, cache, outcome) == write_pickle(f, cache, outcome)

-----------------------------------------------------------------------------
(* Series.str.contains(pat, case=False, na=False): pat is compiled as a     *)
(* regular expression (regex=True is the default) with re.IGNORECASE.       *)
(* The patterns of the model are made of literal characters, '.', '(' and   *)
(* '*', and no ')'.                                                         *)

\* re.compile(pat) raises re.error: an unterminated group, nothing to
\* repeat, or a repeated repeat
re_error(pat) ==
    \/ \E i \in 1..Len(pat) : pat[i] = "("
    \/ \E i \in 1..Len(pat) : pat[i] = "*" /\ (i = 1 \/ pat[i - 1] = "*")

\* one character against one pattern atom, ignoring case
atom_match(a, c) == a = "." \/ LowerChar(a) = LowerChar(c)

RECURSIVE re_match(_, _, _, _)
\* pat from position k matches a prefix of s from position i
re_match(pat, k, s, i) ==
    IF k > Len(pat) THEN TRUE
    ELSE IF k < Len(pat) /\ pat[k + 1] = "*"
    THEN \/ re_match(pat, k + 2, s, i)
         \/ i <= Len(s) /\ atom_match(pat[k], s[i]) /\ re_match(pat, k, s, i + 1)
    ELSE i <= Len(s) /\ atom_match(pat[k], s[i]) /\ re_match(pat, k + 1, s, i + 1)

\* regex.search(s) finds a match
re_search(pat, s) == \E i \in 1..(Len(s) + 1) : re_match(pat, 1, s, i)

\* one element of the mask: False for a value that is no string (na=False)
str_contains(cell, pat) == IsStr(cell) /\ re_search(pat, cell.str)

-----------------------------------------------------------------------------
(* Sentinel parsers *)

\* safe_int(value, default): int(float('inf')) raises, which gives default
safe_int(value, default) ==
    IF isna(value) \/ value = Str(<<"-">>) THEN default
    ELSE IF ~IsNum(to_numeric(value)) THEN default
    ELSE to_numeric(value).num

\* safe_float(value, default): the numbers of the model are integers, and
\* the float inf is Inf
safe_float(value, default) ==
    IF isna(value) \/ value = Str(<<"-">>) THEN default
    ELSE IF IsNaN(to_numeric(value)) THEN default
    ELSE IF IsInf(to_numeric(value)) THEN Inf
    ELSE to_numeric(value).num

\* _format_resistance(value): the int as Num(n), the str 'Immune' as Str
format_resistance(value) ==
    IF isna(value) THEN Num(999999)
    ELSE IF lower(py_str(value)) = <<"i", "m", "m", "u", "n", "e">>
    THEN Str(<<"I", "m", "m", "u", "n", "e">>)
    ELSE IF ~IsNum(to_numeric(value)) THEN Num(999999)
    ELSE to_numeric(value)

\* _parse_poise(value)
parse_poise(value) ==
    IF isna(value) THEN 0
    ELSE IF py_str(value) = <<InfChar>> \/ lower(py_str(value)) = <<"i", "n", "f">>
    THEN 999999
    ELSE IF ~IsNum(to_numeric(value)) THEN 0
    ELSE to_numeric(value).num

-----------------------------------------------------------------------------
(* Query engine *)

Unknown == Str(<<"U", "n", "k", "n", "o", "w", "n">>)

\* search_enemies(query, ng_level)
search_enemies(data, query, ng_level) ==
    IF ng_level \notin DOMAIN data THEN List(<<>>)
    ELSE IF re_error(query) THEN Raised("re.error")
    ELSE LET results == Filter(data[ng_level], LAMBDA row : str_contains(row["Name"], query)).rows
         IN  IF results # <<>> /\ ~HasCol(data[ng_level], "Location")
             THEN Raised("KeyError")
             ELSE IF \E i \in 1..Len(results) : IsInf(results[i]["HP"])
             THEN Raised("OverflowError")
             ELSE List([i \in 1..Len(results) |->
                     [name |-> results[i]["Name"],
                      location |-> results[i]["Location"],
                      hp |-> IF results[i]["HP"].num > 0 THEN results[i]["HP"].num ELSE 0,
                      id |-> results[i]["ID"]]])

damage_negation_cols ==
    [physical |-> "Phys.1", strike |-> "Strike.1", slash |-> "Slash.1",
     pierce |-> "Pierce.1", magic |-> "Magic.1", fire |-> "Fire.1",
     lightning |-> "Ltng.1", holy |-> "Holy.1"]

resistance_cols ==
    [poison |-> "Poison", scarlet_rot |-> "Scarlet Rot", bleed |-> "Bleed",
     frost |-> "Frost", sleep |-> "Sleep", madness |-> "Madness",
     deathblight |-> "Deathblight"]

\* the details dict built from the canonical row enemy and the rows of the
\* same name
enemy_details(enemy, all_enemy_instances) ==
    [name |-> enemy["Name"],
     location |-> RowGet(enemy, "Location", Unknown),
     hp |-> safe_int(enemy["HP"], 0),
     damage_negation |->
        [k \in DOMAIN damage_negation_cols |->
            safe_float(RowGet(enemy, damage_negation_cols[k], Num(0)), 0)],
     resistances |->
        [k \in DOMAIN resistance_cols |->
            format_resistance(RowGet(enemy, resistance_cols[k], Num(999999)))],
     poise |-> [base |-> safe_int(RowGet(enemy, "Base", Num(0)), 0),
                effective |-> parse_poise(RowGet(enemy, "Effective", Num(0))),
                regen_delay |-> safe_float(RowGet(enemy, "Regen Delay", Num(0)), 0)],
     status_multipliers |->
        [bleed |-> safe_float(RowGet(enemy, "Bleed.1", Num(1)), 1),
         frost |-> safe_float(RowGet(enemy, "Frost.1", Num(1)), 1),
         black_flame |-> safe_float(RowGet(enemy, "HP Burn Effect", Num(1)), 1)],
     has_weak_spots |-> safe_int(RowGet(enemy, "Weak Part", Num(0)), 0) # 0,
     all_instances |->
        [i \in 1..Len(all_enemy_instances) |->
            [location |-> RowGet(all_enemy_instances[i], "Location", Unknown),
             hp |-> safe_int(all_enemy_instances[i]["HP"], 0)]]]

\* get_enemy_details(enemy_name, location, ng_level); location is None or
\* Str(text), and the empty text is as false as None
get_enemy_details(data, enemy_name, location, ng_level) ==
    IF ng_level \notin DOMAIN data THEN None
    ELSE LET df == data[ng_level]
             matches == Filter(df, LAMBDA row : row["Name"] = Str(enemy_name)).rows
             filtering == location # None /\ location # Str(<<>>) /\ Len(matches) > 0
             location_matches == SelectSeq(matches, LAMBDA row : row["Location"] = location)
         IN  IF filtering /\ ~HasCol(df, "Location") THEN Raised("KeyError")
             ELSE IF Len(matches) = 0 THEN None
             ELSE IF filtering /\ Len(location_matches) > 0
             THEN enemy_details(location_matches[1], matches)
             ELSE enemy_details(matches[1], matches)

\* search_by_region(region, ng_level)
search_by_region(data, region, ng_level) ==
    IF ng_level \notin DOMAIN data THEN List(<<>>)
    ELSE IF ~HasCol(data[ng_level], "Location") THEN Raised("KeyError")
    ELSE IF re_error(region) THEN Raised("re.error")
    ELSE LET results == Filter(data[ng_level],
                               LAMBDA row : str_contains(row["Location"], region)).rows
         IN  List([i \in 1..Len(results) |->
                 [name |-> results[i]["Name"], location |-> results[i]["Location"]]])

-----------------------------------------------------------------------------
(* Region aggregator *)

RECURSIVE sum_from(_, _)
\* the sum of the numbers nums[i], nums[i+1], ...
sum_from(nums, i) == IF i > Len(nums) THEN 0 ELSE nums[i].num + sum_from(nums, i + 1)

\* int(x) of the quotient a / b, b > 0: truncation towards zero
trunc_div(a, b) == IF a >= 0 THEN a \div b ELSE 0 - ((0 - a) \div b)

\* round(a / b, 1), b > 0, as a number of tenths: ties go to the even tenth
round_tenths(a, b) ==
    LET q == (10 * a) \div b
        r == (10 * a) % b
    IN  IF 2 * r < b THEN q
        ELSE IF 2 * r > b THEN q + 1
        ELSE IF q % 2 = 0 THEN q ELSE q + 1

Tenths(k) == [tenths |-> k]

\* the values of a column of the rows, in order
column(rows, col) == [i \in 1..Len(rows) |-> rows[i][col]]

\* avg_resistance(column_name) over the rows of the region
avg_resistance(rows, column_name) ==
    LET values == SelectSeq(column(rows, column_name),
                     LAMBDA val : /\ ~isna(val)
                                  /\ lower(strip(py_str(val))) # <<"i", "m", "m", "u", "n", "e">>
                                  /\ ~IsNaN(to_numeric(val)))
        floats == [i \in 1..Len(values) |-> to_numeric(values[i])]
    IN  IF values = <<>> THEN None
        ELSE Num(trunc_div(sum_from(floats, 1), Len(floats)))

\* safe_avg(col_name) over the frame region_df of the region
safe_avg(region_df, col_name) ==
    IF HasCol(region_df, col_name)
    THEN LET coerced == [i \in 1..Len(region_df.rows) |->
                            to_numeric(region_df.rows[i][col_name])]
             numeric_vals == SelectSeq(coerced, LAMBDA v : ~IsNaN(v))
         IN  IF \E i \in 1..Len(numeric_vals) : IsInf(numeric_vals[i]) THEN Inf
             ELSE IF Len(numeric_vals) > 0
             THEN Tenths(round_tenths(sum_from(numeric_vals, 1), Len(numeric_vals)))
             ELSE Num(0)
    ELSE Num(0)

\* the avg_stats dict of a non-empty region frame
region_stats(region, region_df) ==
    [region |-> region,
     enemy_count |-> Len(region_df.rows),
     avg_hp |-> trunc_div(sum_from(column(region_df.rows, "HP"), 1), Len(region_df.rows)),
     avg_damage_negation |->
        [k \in DOMAIN damage_negation_cols |-> safe_avg(region_df, damage_negation_cols[k])],
     avg_resistances |->
        [k \in DOMAIN resistance_cols |-> avg_resistance(region_df.rows, resistance_cols[k])],
     avg_poise |-> [base |-> safe_avg(region_df, "Base"),
                    effective |-> safe_avg(region_df, "Effective"),
                    regen_delay |-> safe_avg(region_df, "Regen Delay")],
     avg_status_multipliers |->
        [bleed |-> safe_avg(region_df, "Bleed.1"),
         frost |-> safe_avg(region_df, "Frost.1"),
         black_flame |-> safe_avg(region_df, "HP Burn Effect")]]

\* calculate_region_average(region, ng_level)
calculate_region_average(data, region, ng_level) ==
    IF ng_level \notin DOMAIN data THEN None
    ELSE IF ~HasCol(data[ng_level], "Location") THEN Raised("KeyError")
    ELSE IF re_error(region) THEN Raised("re.error")
    ELSE LET region_df == Filter(data[ng_level],
                                 LAMBDA row : str_contains(row["Location"], region))
         IN  IF Len(region_df.rows) = 0 THEN None
             ELSE IF \E i \in 1..Len(region_df.rows) : IsInf(region_df.rows[i]["HP"])
             THEN Raised("OverflowError")
             ELSE IF \E k \in DOMAIN resistance_cols : ~HasCol(region_df, resistance_cols[k])
             THEN Raised("KeyError")
             ELSE IF \E k \in DOMAIN resistance_cols : \E i \in 1..Len(region_df.rows) :
                        IsInf(to_numeric(region_df.rows[i][resistance_cols[k]]))
             THEN Raised("OverflowError")
             ELSE region_stats(region, region_df)

-----------------------------------------------------------------------------
(* Process life cycle and the Dataset cache *)

RECURSIVE total_from(_, _)
total_from(data, i) ==
    IF i > Len(ng_levels) THEN 0
    ELSE (IF ng_levels[i] \in DOMAIN data THEN Len(data[ng_levels[i]].rows) ELSE 0)
         + total_from(data, i + 1)

\* sum(len(df) for df in elden_data.values())
total_enemies(data) == total_from(data, 1)

\* what a load run found at CACHE_FILE on entry
ArtifactState(f) ==
    IF ~Exists(f) THEN "absent"
    ELSE IF IsRaised(pickle_load(f)) THEN "unreadable" ELSE "readable"

\* the record of a load run kept in response
LoadReport(op, r, cfile, outcome) ==
    [op |-> op, path |-> r.path, done |-> r.done, artifact |-> ArtifactState(cfile),
     attempted |-> r.path = "ingest" /\ r.elden_data # EmptyDict,
     wrote |-> r.path = "ingest" /\ r.elden_data # EmptyDict /\ outcome = "ok"]

\* module initialisation followed by the __main__ block:
\* load_elden_ring_data() and ai_cache = load_ai_cache()
Main(outcome) ==
    /\ pc = "boot"
    /\ \E r \in {load_elden_ring_data(FALSE, elden_data, dataFile, cacheFile, outcome)} :
           /\ elden_data' = r.elden_data
           /\ cacheFile' = r.cacheFile
           /\ response' = LoadReport("main", r, cacheFile, outcome)
           /\ saved' = IF response'.wrote THEN r.elden_data ELSE saved
    /\ ai_cache' = load_ai_cache(aiCacheFile)
    /\ pc' = "serving"
    /\ reqno' = 1 - reqno
    /\ UNCHANGED <<dataFile, aiCacheFile>>

\* POST /api/reload: load_elden_ring_data(force_reload=True), then the
\* counts of the Dataset as the body
reload_data(outcome) ==
    /\ pc = "serving"
    /\ \E r \in {load_elden_ring_data(TRUE, elden_data, dataFile, cacheFile, outcome)} :
           /\ elden_data' = r.elden_data
           /\ cacheFile' = r.cacheFile
           /\ response' = [LoadReport("reload", r, cacheFile, outcome) EXCEPT
                              !.op = "reload"] @@
                          [enemies_loaded |-> total_enemies(r.elden_data),
                           ng_levels |-> DOMAIN r.elden_data]
           /\ saved' = IF response'.wrote THEN r.elden_data ELSE saved
    /\ reqno' = 1 - reqno
    /\ UNCHANGED <<ai_cache, dataFile, aiCacheFile, pc>>

\* the process ends; the next one starts from the module-level globals
Restart ==
    /\ pc = "serving"
    /\ pc' = "boot"
    /\ elden_data' = EmptyDict
    /\ ai_cache' = EmptyDict
    /\ response' = [op |-> "exit"]
    /\ reqno' = 0
    /\ UNCHANGED <<dataFile, cacheFile, aiCacheFile, saved>>

\* an operator replaces, or removes, the spreadsheet
EditSource(wb) ==
    /\ dataFile # wb
    /\ dataFile' = wb
    /\ UNCHANGED <<elden_data, ai_cache, cacheFile, aiCacheFile, pc, response, reqno, saved>>

\* the Dataset cache artifact is damaged, or deleted, outside the process
DamageCache(f) ==
    /\ Exists(cacheFile)
    /\ cacheFile # f
    /\ cacheFile' = f
    /\ UNCHANGED <<elden_data, ai_cache, dataFile, aiCacheFile, pc, response, reqno, saved>>

Init ==
    /\ elden_data = EmptyDict
    /\ ai_cache = EmptyDict
    /\ dataFile \in Workbooks \cup {Missing}
    /\ cacheFile = Absent
    /\ aiCacheFile = Absent
    /\ pc = "boot"
    /\ response = [op |-> "exit"]
    /\ reqno = 0
    /\ saved = None

Next ==
    \/ \E outcome \in WriteOutcomes : Main(outcome)
    \/ \E outcome \in WriteOutcomes : reload_data(outcome)
    \/ Restart
    \/ \E wb \in Workbooks \cup {Missing} : EditSource(wb)
    \/ \E f \in {Corrupt, Absent} : DamageCache(f)

Spec == Init /\ [][Next]_vars

-----------------------------------------------------------------------------
(* Requests to the query engine and the region aggregator *)

\* the characters of query and region texts: letters, and characters that
\* mean something in a regular expression
QueryChars == {"a", "b", "L", ".", "(", "*"}
Queries == UNION {[1..n -> QueryChars] : n \in 0..MaxQueryLen}

\* levels asked for; "NG+3" is in no workbook of the model
QueryLevels == {"NG", "NG+", "NG+2", "NG+3"}

\* names and locations asked for; <<"a", "b">> is no enemy's name
QueryNames == {n_a, n_a_b, n_Ab, <<"a", "b">>}
QueryLocations == {None, Str(<<>>), Str(l_L), Str(l_b_L), Str(l_C)}

QueryOps == {"search_enemies", "get_enemy_details", "search_by_region",
             "calculate_region_average"}

\* a call is made once the result of the one before has been handed over
Answer(r) ==
    /\ pc = "serving"
    /\ response.op \notin QueryOps
    /\ response' = r
    /\ reqno' = 1 - reqno
    /\ UNCHANGED <<elden_data, ai_cache, dataFile, cacheFile, aiCacheFile, pc, saved>>

CallSearchEnemies(query, ng_level) ==
    Answer([op |-> "search_enemies", query |-> query, ng_level |-> ng_level,
            ret |-> search_enemies(elden_data, query, ng_level)])

CallGetEnemyDetails(enemy_name, location, ng_level) ==
    Answer([op |-> "get_enemy_details", enemy_name |-> enemy_name, location |-> location,
            ng_level |-> ng_level,
            ret |-> get_enemy_details(elden_data, enemy_name, location, ng_level)])

CallSearchByRegion(region, ng_level) ==
    Answer([op |-> "search_by_region", region |-> region, ng_level |-> ng_level,
            ret |-> search_by_region(elden_data, region, ng_level)])

CallCalculateRegionAverage(region, ng_level) ==
    Answer([op |-> "calculate_region_average", region |-> region, ng_level |-> ng_level,
            ret |-> calculate_region_average(elden_data, region, ng_level)])

\* the caller takes the result, or the exception
Deliver ==
    /\ response.op \in QueryOps
    /\ response' = [op |-> "idle"]
    /\ UNCHANGED <<elden_data, ai_cache, dataFile, cacheFile, aiCacheFile, pc, reqno, saved>>

NextQuery ==
    \/ Main("ok")
    \/ Deliver
    \/ \E q \in Queries, ng \in QueryLevels : CallSearchEnemies(q, ng)
    \/ \E n \in QueryNames, l \in QueryLocations, ng \in QueryLevels :
          CallGetEnemyDetails(n, l, ng)
    \/ \E q \in Queries, ng \in QueryLevels : CallSearchByRegion(q, ng)
    \/ \E q \in Queries, ng \in QueryLevels : CallCalculateRegionAverage(q, ng)

\* the query functions applied to every Dataset a start-up load produces
SpecQuery == Init /\ [][NextQuery]_vars

-----------------------------------------------------------------------------
(* Advisory cache: analyze_with_ai and the handlers that use it *)

\* the advisory texts: what the reasoning service makes of a prompt, the
\* fixed text returned when the service fails, a text typed in by an admin
Reply(prompt) == [reply_to |-> prompt]
Fallback == [fixed |-> "Strategy analysis unavailable. Check enemy weaknesses in the stats."]
Manual(t) == [manual |-> t]

\* the outcomes of anthropic_client.messages.create(...)
ServiceOutcomes == {"ok", "error"}

\* a cache key that also depends on the hit points of the enemy
cache_key_with_hp(enemy_data, context) ==
    IF context = "enemy"
    THEN "enemy_" \o Join(py_str(enemy_data.name)) \o "_" \o Join(py_str(enemy_data.location))
             \o "_" \o Join(IntToChars(enemy_data.hp))
    ELSE "region_" \o Join(enemy_data.region)

\* the cache key of a request
cache_key(enemy_data, context) ==
    IF context = "enemy"
    THEN "enemy_" \o Join(py_str(enemy_data.name)) \o "_" \o Join(py_str(enemy_data.location))
    ELSE "region_" \o Join(enemy_data.region)

\* what the prompt template is filled with
prompt_of(enemy_data, context) ==
    IF context = "enemy"
    THEN [name |-> enemy_data.name, hp |-> enemy_data.hp, location |-> enemy_data.location,
          damage_negation |-> enemy_data.damage_negation,
          resistances |-> [k \in {"poison", "bleed", "frost", "sleep"} |->
                              enemy_data.resistances[k]],
          poise |-> enemy_data.poise.base,
          has_weak_spots |-> enemy_data.has_weak_spots]
    ELSE [region |-> enemy_data.region, enemy_count |-> enemy_data.enemy_count,
          avg_hp |-> enemy_data.avg_hp,
          avg_damage_negation |-> enemy_data.avg_damage_negation]

\* analyze_with_ai without its except clause: the error of the service
\* leaves the function
analyze_with_ai_uncaught(enemy_data, context, cache, file, service, outcome) ==
    LET key == cache_key(enemy_data, context)
        response_text == Reply(prompt_of(enemy_data, context))
    IN  IF key \in DOMAIN cache
        THEN [ret |-> cache[key], ai_cache |-> cache, aiCacheFile |-> file,
              key |-> key, called |-> FALSE, wrote |-> "no"]
        ELSE IF service = "error"
        THEN [ret |-> Raised("APIError"), ai_cache |-> cache, aiCacheFile |-> file,
              key |-> key, called |-> TRUE, wrote |-> "no"]
        ELSE [ret |-> response_text,
              ai_cache |-> DictSet(cache, key, response_text),
              aiCacheFile |-> save_ai_cache(file, DictSet(cache, key, response_text), outcome),
              key |-> key, called |-> TRUE, wrote |-> outcome]

\* analyze_with_ai(enemy_data, context) on the advisory cache cache and its
\* artifact file, the service answering service and the write ending
\* outcome: the text returned, the new cache and artifact, and whether the
\* service was called
analyze_with_ai(enemy_data, context, cache, file, service, outcome) ==
    LET key == cache_key(enemy_data, context)
        response_text == Reply(prompt_of(enemy_data, context))
    IN  IF key \in DOMAIN cache
        THEN [ret |-> cache[key], ai_cache |-> cache, aiCacheFile |-> file,
              key |-> key, called |-> FALSE, wrote |-> "no"]
        ELSE IF service = "error"
        THEN [ret |-> Fallback, ai_cache |-> cache, aiCacheFile |-> file,
              key |-> key, called |-> TRUE, wrote |-> "no"]
        ELSE [ret |-> response_text,
              ai_cache |-> DictSet(cache, key, response_text),
              aiCacheFile |-> save_ai_cache(file, DictSet(cache, key, response_text), outcome),
              key |-> key, called |-> TRUE, wrote |-> outcome]

\* what response keeps of an analyze_with_ai call
Analysis(a, enemy_data, context, service) ==
    [context |-> context, key |-> a.key, called |-> a.called, wrote |-> a.wrote,
     service |-> service,
     name |-> IF context = "enemy" THEN enemy_data.name ELSE None,
     location |-> IF context = "enemy" THEN enemy_data.location ELSE None,
     ret |-> a.ret]

\* a handler that ends in analyze_with_ai(found, context): 404 when nothing
\* is found; an exception leaving the handler is a 500.  The service has an
\* outcome when it is called, the artifact write when it is attempted
Advise(op, args, found, context) ==
    IF IsRaised(found)
    THEN /\ response' = [op |-> op, args |-> args, status |-> 500, body |-> found, ai |-> None]
         /\ UNCHANGED <<ai_cache, aiCacheFile>>
    ELSE IF found = None
    THEN /\ response' = [op |-> op, args |-> args, status |-> 404, body |-> None, ai |-> None]
         /\ UNCHANGED <<ai_cache, aiCacheFile>>
    ELSE \E service \in IF cache_key(found, context) \in DOMAIN ai_cache
                        THEN {"unused"} ELSE ServiceOutcomes :
         \E outcome \in IF service = "ok" THEN WriteOutcomes ELSE {"no"} :
         \E a \in {analyze_with_ai(found, context, ai_cache, aiCacheFile, service, outcome)} :
            /\ Cardinality(DOMAIN a.ai_cache) <= MaxEntries
            /\ ai_cache' = a.ai_cache
            /\ aiCacheFile' = a.aiCacheFile
            /\ response' = [op |-> op, args |-> args,
                            status |-> IF IsRaised(a.ret) THEN 500 ELSE 200,
                            body |-> IF IsRaised(a.ret) THEN a.ret
                                     ELSE [data |-> found, ai_strategy |-> a.ret],
                            ai |-> Analysis(a, found, context, service)]

\* GET /api/enemy/<enemy_name>
api_get_enemy(enemy_name, location, ng_level) ==
    /\ pc = "serving"
    /\ \E enemy_data \in {get_enemy_details(elden_data, enemy_name, location, ng_level)} :
          Advise("api_get_enemy",
                 [enemy_name |-> enemy_name, location |-> location, ng_level |-> ng_level],
                 enemy_data, "enemy")
    /\ reqno' = 1 - reqno
    /\ UNCHANGED <<elden_data, dataFile, cacheFile, pc, saved>>

\* GET /api/region/<region_name>
api_get_region(region_name, ng_level) ==
    /\ pc = "serving"
    /\ \E avg_stats \in {calculate_region_average(elden_data, region_name, ng_level)} :
          Advise("api_get_region", [region_name |-> region_name, ng_level |-> ng_level],
                 avg_stats, "region")
    /\ reqno' = 1 - reqno
    /\ UNCHANGED <<elden_data, dataFile, cacheFile, pc, saved>>

\* POST /api/cache/update; enemy_name and strategy are None when the body
\* lacks them
update_ai_cache(enemy_name, new_strategy) ==
    /\ pc = "serving"
    /\ IF enemy_name = None \/ enemy_name = Str(<<>>) \/ new_strategy = None
       THEN /\ response' = [op |-> "update_ai_cache", status |-> 400, ai |-> None,
                            args |-> [enemy_name |-> enemy_name, strategy |-> new_strategy]]
            /\ UNCHANGED <<ai_cache, aiCacheFile>>
       ELSE \E cache_key_ \in {"enemy_" \o Join(py_str(enemy_name))}, outcome \in WriteOutcomes :
               /\ Cardinality(DOMAIN ai_cache \cup {cache_key_}) <= MaxEntries
               /\ ai_cache' = DictSet(ai_cache, cache_key_, new_strategy)
               /\ aiCacheFile' = save_ai_cache(aiCacheFile, ai_cache', outcome)
               /\ response' = [op |-> "update_ai_cache", status |-> 200, ai |-> None,
                               args |-> [enemy_name |-> enemy_name, strategy |-> new_strategy],
                               cache_key |-> cache_key_, wrote |-> outcome]
    /\ reqno' = 1 - reqno
    /\ UNCHANGED <<elden_data, dataFile, cacheFile, pc, saved>>

\* the requests made of the advisory handlers
AdvisoryBook == ("NG" :> SheetNG) @@ ("NG+" :> SheetNGplus)
AdvisoryNames == {n_a_b, n_a}
AdvisoryLocations == {None, Str(l_L)}
AdvisoryLevels == {"NG", "NG+", "NG+2"}
AdvisoryRegions == {<<"L">>}
UpdateNames == {None, Str(n_a)}
UpdateStrategies == {None, Manual("s1")}

InitAdvisory == Init /\ dataFile = AdvisoryBook

NextAdvisory ==
    \/ Main("ok")
    \/ Restart
    \/ \E n \in AdvisoryNames, l \in AdvisoryLocations, ng \in AdvisoryLevels :
          api_get_enemy(n, l, ng)
    \/ \E r \in AdvisoryRegions, ng \in AdvisoryLevels : api_get_region(r, ng)
    \/ \E n \in UpdateNames, t \in UpdateStrategies : update_ai_cache(n, t)

\* the advisory handlers on the Dataset of one workbook, across restarts
SpecAdvisory == InitAdvisory /\ [][NextAdvisory]_vars

-----------------------------------------------------------------------------
(* The advisory cache: claims C1, C5, C6 *)

\* the response of a handler that went through analyze_with_ai
IsAnalysis(r) == "ai" \in DOMAIN r /\ r.ai # None

\* two analyze_with_ai calls in context "enemy", one right after the other,
\* whose inputs have the same name and the same location
SuccessiveEnemyCalls ==
    /\ IsAnalysis(response) /\ response.ai.context = "enemy"
    /\ IsAnalysis(response') /\ response'.ai.context = "enemy"
    /\ response'.ai.name = response.ai.name
    /\ response'.ai.location = response.ai.location

\* the second of two calls is answered from the cache, the service not called
SecondServedFromCache ==
    /\ response'.ai.key = response.ai.key
    /\ ~response'.ai.called
    /\ response.ai.key \in DOMAIN ai_cache
    /\ response'.ai.ret = ai_cache[response.ai.key]

\* C1 (as stated): of two successive enemy analyses with the same name and
\* location the second has the same key and returns the cached text without
\* calling the service, whatever the outcome of the first.
C1_SecondCallServedFromCache ==
    [][SuccessiveEnemyCalls => SecondServedFromCache]_vars

\* C1 (amended): of two successive enemy analyses with the same name and
\* location the second has the same key; when the first returned a text of
\* the cache or of the service (the service did not fail), the second
\* returns that very text from the cache without calling the service.
C1_SecondCallAfterText ==
    [][SuccessiveEnemyCalls =>
          /\ response'.ai.key = response.ai.key
          /\ response.ai.service # "error" =>
                /\ SecondServedFromCache
                /\ response'.ai.ret = response.ai.ret]_vars

\* an enemy analysis was answered from the cache with the text the service
\* gave for the same name and location and another number of hit points
C1_Witness ==
    /\ IsAnalysis(response) /\ response.ai.context = "enemy"
    /\ ~response.ai.called
    /\ "reply_to" \in DOMAIN response.ai.ret
    /\ response.ai.ret.reply_to.name = response.body.data.name
    /\ response.ai.ret.reply_to.location = response.body.data.location
    /\ response.ai.ret.reply_to.hp # response.body.data.hp

\* analyze_with_ai returned a text newly computed by the service
NewlyComputed(r) == IsAnalysis(r) /\ r.ai.called /\ r.ai.service = "ok"

\* the manual admin update returned success
UpdateSucceeded(r) == r.op = "update_ai_cache" /\ r.status = 200

\* the artifact holds the entry key -> text and equals the in-memory cache
Persisted(key, text) ==
    /\ Exists(aiCacheFile)
    /\ ~IsRaised(pickle_load(aiCacheFile))
    /\ key \in DOMAIN pickle_load(aiCacheFile)
    /\ pickle_load(aiCacheFile)[key] = text
    /\ pickle_load(aiCacheFile) = ai_cache

\* C5 (as stated): when analyze_with_ai returns a newly computed text, and
\* when update_ai_cache returns success, the artifact holds the entry and
\* equals the in-memory cache.
C5_PersistedBeforeReturn ==
    /\ NewlyComputed(response) => Persisted(response.ai.key, response.ai.ret)
    /\ UpdateSucceeded(response) => Persisted(response.cache_key, response.args.strategy)

\* C5 (amended): when analyze_with_ai returns a newly computed text, and when
\* update_ai_cache returns success, the in-memory cache holds the entry and
\* the write of the whole cache to the artifact has been attempted; if that
\* write succeeded the artifact holds the entry and equals the in-memory
\* cache.  A failed write is swallowed and the text is returned all the same.
C5_PersistedWhenWritten ==
    /\ NewlyComputed(response) =>
          /\ response.ai.key \in DOMAIN ai_cache
          /\ ai_cache[response.ai.key] = response.ai.ret
          /\ response.ai.wrote \in WriteOutcomes
          /\ response.ai.wrote = "ok" => Persisted(response.ai.key, response.ai.ret)
    /\ UpdateSucceeded(response) =>
          /\ response.cache_key \in DOMAIN ai_cache
          /\ ai_cache[response.cache_key] = response.args.strategy
          /\ response.wrote \in WriteOutcomes
          /\ response.wrote = "ok" => Persisted(response.cache_key, response.args.strategy)

\* a newly computed text was written to the artifact next to an older entry
C5_Witness ==
    /\ NewlyComputed(response)
    /\ response.ai.wrote = "ok"
    /\ Persisted(response.ai.key, response.ai.ret)
    /\ Cardinality(DOMAIN ai_cache) = 2

\* C6: when the service call of analyze_with_ai fails, in context enemy or
\* region, the handler answers normally with the fixed fallback text: no
\* exception leaves analyze_with_ai.
C6_ServiceFailureGivesFallback ==
    (IsAnalysis(response) /\ response.ai.service = "error")
        => /\ ~IsRaised(response.ai.ret)
           /\ response.ai.ret = Fallback
           /\ response.status = 200
           /\ response.body.ai_strategy = Fallback

\* the service failed during a region analysis and the fallback was returned
C6_Witness ==
    /\ IsAnalysis(response)
    /\ response.ai.context = "region"
    /\ response.ai.service = "error"
    /\ response.ai.ret = Fallback

-----------------------------------------------------------------------------
(* The Dataset cache and the ingestion path: claims C2, C3, C4 *)

IsLoadReport(r) == r.op \in {"main", "reload"}

\* C2 (as stated): after a load run that took the ingestion path, whether at
\* start-up or as a forced reload, every level of the Dataset was stored by
\* that same run; with the source missing the Dataset is empty.
C2_OnlyLevelsOfThisRun ==
    (IsLoadReport(response) /\ response.path \in {"ingest", "nosource"})
        => DOMAIN elden_data \subseteq response.done

\* C3: a start-up load (force_reload not set) that finds a readable artifact
\* leaves the Dataset equal to the Dataset last saved to the artifact, does
\* not run the ingestion loader and does not rewrite the artifact.
C3_CacheHitRestoresSaved ==
    [][(pc = "boot" /\ pc' = "serving" /\ ArtifactState(cacheFile) = "readable")
        => /\ elden_data' = saved
           /\ response'.path = "cache"
           /\ response'.done = {}
           /\ ~response'.wrote
           /\ cacheFile' = cacheFile]_vars

\* a start-up load has restored a non-empty Dataset from the artifact
C3_Witness ==
    /\ response.op = "main"
    /\ response.path = "cache"
    /\ response.artifact = "readable"
    /\ elden_data # EmptyDict
    /\ elden_data = saved

\* C4: a start-up load that finds an artifact it cannot deserialize absorbs
\* the failure and ingests: the Dataset is the one ingestion of the source
\* produces, empty when the source is missing, as with no artifact at all.
C4_CorruptCacheFallsBack ==
    [][(pc = "boot" /\ pc' = "serving" /\ ArtifactState(cacheFile) = "unreadable")
        => /\ response'.path # "cache"
           /\ elden_data' = IF Exists(dataFile) THEN ingest_levels(dataFile) ELSE EmptyDict
           /\ response'.done = DOMAIN elden_data']_vars

\* a start-up load met an unreadable artifact and ingested levels
C4_Witness ==
    /\ response.op = "main"
    /\ response.artifact = "unreadable"
    /\ response.path = "ingest"
    /\ response.done # {}
    /\ DOMAIN elden_data = response.done

-----------------------------------------------------------------------------
(* The query engine and the region aggregator: claims C7, C8, C9, C10 *)

\* C7 (as stated): the four query functions are total: on every Dataset the
\* loader produces and every argument they return a value and never raise.
C7_QueriesNeverRaise ==
    response.op \in QueryOps => ~IsRaised(response.ret)

\* the rows of a level whose name is exactly name, in dataset order
ExactMatches(data, name, ng_level) ==
    SelectSeq(data[ng_level].rows, LAMBDA row : row["Name"] = Str(name))

\* C8 (as stated): get_enemy_details returns absent iff the level is absent
\* or no record has exactly that name; otherwise the canonical instance is
\* the first exact-name match at the supplied location when there is one,
\* else the first exact-name match, and all_instances lists every
\* exact-name match in dataset order.
C8_DetailsSelection ==
    response.op = "get_enemy_details" =>
        LET ng == response.ng_level
            absent == ng \notin DOMAIN elden_data
                      \/ ExactMatches(elden_data, response.enemy_name, ng) = <<>>
            matches == ExactMatches(elden_data, response.enemy_name, ng)
            there == SelectSeq(matches,
                        LAMBDA row : /\ response.location # None
                                     /\ RowGet(row, "Location", None) = response.location)
            canonical == IF there # <<>> THEN there[1] ELSE matches[1]
        IN  /\ (response.ret = None) <=> absent
            /\ ~absent =>
                  /\ ~IsRaised(response.ret)
                  /\ response.ret.name = canonical["Name"]
                  /\ response.ret.location = RowGet(canonical, "Location", Unknown)
                  /\ response.ret.hp = canonical["HP"].num
                  /\ response.ret.all_instances =
                        [i \in 1..Len(matches) |->
                            [location |-> RowGet(matches[i], "Location", Unknown),
                             hp |-> matches[i]["HP"].num]]

\* q occurs in s as a run of characters, case ignored
IsSubstring(q, s) ==
    \E i \in 0..(Len(s) - Len(q)) : \A j \in 1..Len(q) : LowerChar(q[j]) = LowerChar(s[i + j])

\* C9 (as stated): search_enemies returns exactly the records of the level
\* whose name contains the query as a case-insensitive literal substring, one
\* per record in dataset order, and the empty sequence for an absent level;
\* for every query text, '.', '(' and '*' included.
C9_SearchIsLiteralSubstring ==
    response.op = "search_enemies" =>
        LET ng == response.ng_level
            hits == IF ng \in DOMAIN elden_data
                    THEN SelectSeq(elden_data[ng].rows,
                            LAMBDA row : IsStr(row["Name"])
                                         /\ IsSubstring(response.query, row["Name"].str))
                    ELSE <<>>
        IN  /\ ~IsRaised(response.ret)
            /\ Len(response.ret.list) = Len(hits)
            /\ \A i \in 1..Len(hits) :
                  /\ response.ret.list[i].name = hits[i]["Name"]
                  /\ response.ret.list[i].id = hits[i]["ID"]

\* the region-matching rows of a calculate_region_average request
RegionRows(data, region, ng_level) ==
    IF ng_level \in DOMAIN data /\ HasCol(data[ng_level], "Location") /\ ~re_error(region)
    THEN SelectSeq(data[ng_level].rows, LAMBDA row : str_contains(row["Location"], region))
    ELSE <<>>

\* the values of a resistance that count: neither absent, nor Immune, nor
\* unparseable
Eligible(rows, col) ==
    SelectSeq([i \in 1..Len(rows) |-> RowGet(rows[i], col, NaN)],
        LAMBDA val : /\ ~IsNaN(val)
                     /\ lower(strip(py_str(val))) # <<"i", "m", "m", "u", "n", "e">>
                     /\ ~IsNaN(to_numeric(val)))

\* C10 (as stated): over the region-matching records, each resistance
\* average is the arithmetic mean of the values that are neither Immune nor
\* absent nor unparseable, null when there is none; each damage-negation
\* average is taken over every matching record, coerced zeros included.
C10_RegionAverages ==
    (response.op = "calculate_region_average"
     /\ RegionRows(elden_data, response.region, response.ng_level) # <<>>) =>
        LET rows == RegionRows(elden_data, response.region, response.ng_level)
            ret == response.ret
        IN  /\ ~IsRaised(ret)
            /\ ret # None
            /\ \A k \in DOMAIN resistance_cols :
                  LET vals == Eligible(rows, resistance_cols[k])
                      nums == [i \in 1..Len(vals) |-> to_numeric(vals[i])]
                  IN  IF vals = <<>> THEN ret.avg_resistances[k] = None
                      ELSE /\ IsNum(ret.avg_resistances[k])
                           /\ ret.avg_resistances[k].num * Len(vals) = sum_from(nums, 1)
            /\ \A k \in DOMAIN damage_negation_cols :
                  damage_negation_cols[k] \in DOMAIN rows[1] =>
                      ret.avg_damage_negation[k] =
                          Tenths(round_tenths(
                              sum_from(column(rows, damage_negation_cols[k]), 1), Len(rows)))

-----------------------------------------------------------------------------
(* Ingested rows: claims C11, C12, C13 *)

\* the hit points the derivation rule gives a row: dlcClear when it is
\* present, numeric and not the dash; else Health when it is numeric; else 0
PreferredHp(row) ==
    LET dlc == RowGet(row, "dlcClear", NaN)
        health == RowGet(row, "Health", NaN)
    IN  IF ~isna(dlc) /\ dlc # tDash /\ IsNum(to_numeric(dlc)) THEN to_numeric(dlc)
        ELSE IF IsNum(to_numeric(health)) THEN to_numeric(health)
        ELSE Num(0)

\* C11 (as stated): every row of the Dataset has the hit points of the
\* derivation rule; a row whose dlcClear is non-numeric text and whose Health
\* is numeric has hp = Health.
C11_HpPrefersDlcClearElseHealth ==
    \A ng \in DOMAIN elden_data :
        \A i \in 1..Len(elden_data[ng].rows) :
            elden_data[ng].rows[i]["HP"] = PreferredHp(elden_data[ng].rows[i])

\* a cell that marks an infinite effective poise
IsInfiniteMarker(c) ==
    IsStr(c) /\ (c.str = <<InfChar>> \/ lower(c.str) = <<"i", "n", "f">>)

\* the rows of the sheet of level ng, as read from the source, that carry
\* the name and location of the instance details
SourceRowsOf(details, ng) ==
    SelectSeq(find_header(dataFile, ng, 1).rows,
              LAMBDA row : /\ row["Name"] = details.name
                           /\ RowGet(row, "Location", Unknown) = details.location)

\* C12 (as stated): when the Effective cell of the source row of an instance
\* is the infinity sign or 'inf' in any case, get_enemy_details on the loaded
\* Dataset reports poise.effective = 999999 for it.
C12_InfinitePoiseSurvivesIngestion ==
    (response.op = "get_enemy_details" /\ response.ret # None /\ ~IsRaised(response.ret))
        => LET rows == SourceRowsOf(response.ret, response.ng_level)
           IN  (/\ rows # <<>>
                /\ \A i \in 1..Len(rows) :
                      IsInfiniteMarker(RowGet(rows[i], "Effective", NaN)))
                   => response.ret.poise.effective = 999999

\* row h of the sheet exists and one of its cells, trimmed, is Name
HasNameHeader(sheet, h) ==
    /\ h + 1 <= Len(sheet)
    /\ \E k \in 1..Len(sheet[h + 1]) :
          IsStr(sheet[h + 1][k]) /\ strip(sheet[h + 1][k].str) = hName

\* the first of the rows 1, 0, 2 that is a header with Name; -1 if none is
ChosenHeader(sheet) ==
    IF HasNameHeader(sheet, 1) THEN 1
    ELSE IF HasNameHeader(sheet, 0) THEN 0
    ELSE IF HasNameHeader(sheet, 2) THEN 2
    ELSE 0 - 1

\* the names, in order, of the rows below row h that the loader keeps
NamesBelow(sheet, h) ==
    LET name_at == CHOOSE k \in 1..Len(sheet[h + 1]) :
                      /\ IsStr(sheet[h + 1][k]) /\ strip(sheet[h + 1][k].str) = hName
                      /\ \A j \in 1..(k - 1) :
                            ~(IsStr(sheet[h + 1][j]) /\ strip(sheet[h + 1][j].str) = hName)
        below == [i \in 1..(Len(sheet) - (h + 1)) |-> sheet[h + 1 + i][name_at]]
    IN  SelectSeq(below, LAMBDA c : ~IsNaN(c) /\ c # tPlaceholder)

\* the frame df holds the rows of the sheet read with row h as the header
LoadedVia(df, sheet, h) ==
    /\ HasCol(df, "Name")
    /\ column(df.rows, "Name") = NamesBelow(sheet, h)

\* C13: a load run that ingests reads each level's sheet with the first of
\* the header rows 1, 0, 2 whose trimmed names include Name, passing over a
\* candidate that cannot be read or lacks Name; the level is skipped only
\* when the sheet is missing or none of the three rows qualifies.
C13_HeaderCandidatesInOrder ==
    [][(reqno' # reqno /\ IsLoadReport(response') /\ response'.path = "ingest")
        => \A ng \in NgSet :
              IF ng \in DOMAIN dataFile /\ ChosenHeader(dataFile[ng]) >= 0
              THEN /\ ng \in response'.done
                   /\ LoadedVia(elden_data'[ng], dataFile[ng], ChosenHeader(dataFile[ng]))
              ELSE ng \notin response'.done]_vars

\* a load run has ingested a level from a sheet whose row 1 is no header
\* and whose row 0 is
C13_Witness ==
    /\ IsLoadReport(response) /\ response.path = "ingest"
    /\ \E ng \in response.done :
          /\ ng \in DOMAIN dataFile
          /\ Len(dataFile[ng]) > 2
          /\ ~HasNameHeader(dataFile[ng], 1)
          /\ ChosenHeader(dataFile[ng]) = 0
          /\ ng \in DOMAIN elden_data
          /\ elden_data[ng].rows # <<>>
          /\ LoadedVia(elden_data[ng], dataFile[ng], 0)

-----------------------------------------------------------------------------
(* The write of the Dataset cache artifact: claim C14 *)

\* C14 (as stated): a load run that ingests writes the Dataset cache
\* artifact exactly when at least one level produced records in that run,
\* also when the run is a forced reload after an earlier load.
C14_WrittenIffRecordsIngested ==
    [][(reqno' # reqno /\ IsLoadReport(response') /\ response'.path = "ingest")
        => (response'.attempted
              <=> \E ng \in response'.done : elden_data'[ng].rows # <<>>)]_vars

-----------------------------------------------------------------------------
(* The keys of the advisory cache: claims C15, C16 *)

\* C15 (as stated): after a successful manual update for an enemy with
\* strategy S, the next analyze_with_ai call for any instance of that enemy
\* returns S without calling the service.
C15_UpdateServesNextAnalysis ==
    [][(/\ UpdateSucceeded(response)
        /\ IsAnalysis(response') /\ response'.ai.context = "enemy"
        /\ response'.ai.name = response.args.enemy_name)
        => /\ ~response'.ai.called
           /\ response'.ai.ret = response.args.strategy]_vars

\* the instances (name, location) of the Dataset
Instances ==
    UNION {{[name |-> elden_data[ng].rows[i]["Name"],
             location |-> RowGet(elden_data[ng].rows[i], "Location", Unknown)] :
               i \in 1..Len(elden_data[ng].rows)} : ng \in DOMAIN elden_data}

\* C16 (as stated): different (name, location) instances have different
\* cache keys, no enemy key is a region key, and the text a cache hit
\* returns for an instance was computed for that same instance.
C16_KeysIdentifyInstances ==
    /\ \A x \in Instances : \A y \in Instances :
          x # y => cache_key(x, "enemy") # cache_key(y, "enemy")
    /\ \A x \in Instances : \A r \in AdvisoryRegions :
          cache_key(x, "enemy") # cache_key([region |-> r], "region")
    /\ (/\ IsAnalysis(response) /\ response.ai.context = "enemy"
        /\ ~response.ai.called
        /\ "reply_to" \in DOMAIN response.ai.ret)
          => /\ response.ai.ret.reply_to.name = response.ai.name
             /\ response.ai.ret.reply_to.location = response.ai.location

====
